---- MODULE Spec2Model ----
(***************************************************************************)
(* check-mount (src/check_mount.py): the mount(8) output parsers of        *)
(* BSDMount and LinuxMount, Mount.process_mount_data, Mount.probe, the     *)
(* MountFactory and the start-up path of main/parse_args.                  *)
(*                                                                         *)
(* Text is a sequence of atoms.  An atom is either one of the characters   *)
(* the regular expressions and split() calls anchor on (" ", "(", ")",     *)
(* ",", the line separator "\n") or a word that holds none of them ("on",  *)
(* "type", "/dev", "nfs", ...).  The literal " on " of the regular         *)
(* expressions is therefore the three atoms " ", "on", " ", and a match    *)
(* over atoms is a match over the characters they spell.                   *)
(***************************************************************************)
EXTENDS Integers, Sequences, FiniteSets, TLC

\* ------------------------------------------------------------------ bounds
\* Most lines of one mount(8) listing.
MaxLines == 2
\* Most option tokens of one encoded line (parser specification).
MaxOpts == 2

\* ---------------------------------------------------------- text helpers
Max(S) == CHOOSE x \in S : \A y \in S : y <= x

Range(s) == {s[i] : i \in 1..Len(s)}

\* lit occurs in s starting at index i.
OccursAt(s, lit, i) ==
    /\ i >= 1
    /\ i + Len(lit) - 1 <= Len(s)
    /\ \A k \in 1..Len(lit) : s[i + k - 1] = lit[k]

Occurrences(s, lit) == {i \in 1..Len(s) : OccursAt(s, lit, i)}

\* str.split(sep): the pieces between the occurrences of sep, found left
\* to right; a text without sep (the empty text included) is one piece.
RECURSIVE Split(_, _)
Split(s, sep) ==
    IF Occurrences(s, sep) = {}
    THEN <<s>>
    ELSE LET i == CHOOSE x \in Occurrences(s, sep) :
                      \A y \in Occurrences(s, sep) : x <= y
         IN  <<SubSeq(s, 1, i - 1)>>
                 \o Split(SubSeq(s, i + Len(sep), Len(s)), sep)

\* sep.join(parts)
RECURSIVE Join(_, _)
Join(parts, sep) ==
    IF parts = <<>> THEN <<>>
    ELSE IF Len(parts) = 1 THEN parts[1]
    ELSE parts[1] \o sep \o Join(Tail(parts), sep)

\* str.strip(): leading and trailing whitespace removed.
RECURSIVE Strip(_)
Strip(s) ==
    IF s = <<>> THEN s
    ELSE IF Head(s) = " " THEN Strip(Tail(s))
    ELSE IF s[Len(s)] = " " THEN Strip(SubSeq(s, 1, Len(s) - 1))
    ELSE s

\* str.lower() on the atoms of the alphabet that hold upper-case letters.
LowerAtom(a) ==
    CASE a = "NFS" -> "nfs"
      [] a = "Nfs" -> "nfs"
      [] a = "EXT4" -> "ext4"
      [] OTHER -> a

Lower(s) == [i \in 1..Len(s) |-> LowerAtom(s[i])]

\* os.linesep
linesep == <<"\n">>

\* ------------------------------------------------------------ the parsers
ON == <<" ", "on", " ">>
TYPE == <<" ", "type", " ">>
OPEN == <<" ", "(">>
COMMA_SPACE == <<",", " ">>

\* The dict process_mount_line returns when the line does not match.
EmptyDetail == [k \in {} |-> <<>>]

HasKey(detail, k) == k \in DOMAIN detail

\* Where " \((.*)\)$" can start at or after index lo + 1, so that the group
\* before it is not empty: " (" at k, and ")" the last atom, after the "(".
OpenSplits(s, lo) ==
    {k \in (lo + 1)..Len(s) :
        /\ OccursAt(s, OPEN, k)
        /\ k + Len(OPEN) <= Len(s)
        /\ s[Len(s)] = ")"}

\* Where " type (.+) \((.*)\)$" can start, the group before it not empty.
TypeSplits(s, lo) ==
    {j \in (lo + 1)..Len(s) :
        OccursAt(s, TYPE, j) /\ OpenSplits(s, j + Len(TYPE)) # {}}

\* Where " on (.+) type (.+) \((.*)\)$" can start.
LinuxOnSplits(s) ==
    {i \in 2..Len(s) :
        OccursAt(s, ON, i) /\ TypeSplits(s, i + Len(ON)) # {}}

\* Where " on (.+) \((.*)\)$" can start.
BSDOnSplits(s) ==
    {i \in 2..Len(s) :
        OccursAt(s, ON, i) /\ OpenSplits(s, i + Len(ON)) # {}}

\* LinuxMount.process_mount_line: r"^(.+) on (.+) type (.+) \((.*)\)$",
\* every group greedy, so each anchor is the rightmost one that still lets
\* the rest of the expression match.
LinuxMount_process_mount_line(text) ==
    IF LinuxOnSplits(text) = {} THEN EmptyDetail
    ELSE LET i == Max(LinuxOnSplits(text))
             j == Max(TypeSplits(text, i + Len(ON)))
             k == Max(OpenSplits(text, j + Len(TYPE)))
         IN  [source |-> SubSeq(text, 1, i - 1),
              target |-> SubSeq(text, i + Len(ON), j - 1),
              filesystem_type |-> SubSeq(text, j + Len(TYPE), k - 1),
              options |-> Split(SubSeq(text, k + Len(OPEN), Len(text) - 1),
                                COMMA_SPACE)]

\* A parser that forgets to take the type off the front of the tokens.
BSDMount_process_mount_line_nopop(text) ==
    IF BSDOnSplits(text) = {} THEN EmptyDetail
    ELSE LET i == Max(BSDOnSplits(text))
             k == Max(OpenSplits(text, i + Len(ON)))
             opts == Split(SubSeq(text, k + Len(OPEN), Len(text) - 1),
                           COMMA_SPACE)
         IN  [source |-> SubSeq(text, 1, i - 1),
              target |-> SubSeq(text, i + Len(ON), k - 1),
              filesystem_type |-> Head(opts),
              options |-> opts]

\* BSDMount.process_mount_line: r"^(.+) on (.+) \((.*)\)$".
BSDMount_process_mount_line(text) ==
    IF BSDOnSplits(text) = {} THEN EmptyDetail
    ELSE LET i == Max(BSDOnSplits(text))
             k == Max(OpenSplits(text, i + Len(ON)))
             opts == Split(SubSeq(text, k + Len(OPEN), Len(text) - 1),
                           COMMA_SPACE)
         IN  [source |-> SubSeq(text, 1, i - 1),
              target |-> SubSeq(text, i + Len(ON), k - 1),
              filesystem_type |-> Head(opts),
              options |-> Tail(opts)]

\* cls.process_mount_line, by the class MountFactory chose.
process_mount_line(cls, text) ==
    IF cls = "LinuxMount" THEN LinuxMount_process_mount_line(text)
    ELSE BSDMount_process_mount_line(text)

\* ------------------------------------------------ mount(8) output formats
\* The listing formats the two regular expressions describe: Linux prints
\* "SOURCE on TARGET type FSTYPE (OPT,OPT)", BSD and macOS print
\* "SOURCE on TARGET (FSTYPE, OPT, OPT)".
LinuxEncode(e) ==
    e.source \o ON \o e.target \o TYPE \o e.filesystem_type \o OPEN
        \o Join(e.options, <<",">>) \o <<")">>

BSDEncode(e) ==
    e.source \o ON \o e.target \o OPEN
        \o Join(<<e.filesystem_type>> \o e.options, COMMA_SPACE) \o <<")">>

Encode(g, e) == IF g = "LinuxMount" THEN LinuxEncode(e) ELSE BSDEncode(e)

SeqsUpTo(S, n) == UNION {[1..m -> S] : m \in 0..n}

\* Field values of the encoded lines: plain ones, ones with spaces, and
\* ones that hold the words the expressions anchor on.
Sources ==
    {<<"/dev">>, <<"my", " ", "disk">>, <<"a", " ", "on", " ", "b">>}
Targets ==
    {<<"/">>, <<"/my", " ", "x">>, <<"/a", " ", "on", " ", "b">>,
     <<"on", " ", "x">>, <<"/a", " ", "type", " ", "b">>}
FsTypes == {<<"ext4">>, <<"NFS">>}
LinuxOptTokens == {<<"rw">>, <<"relatime">>}
BSDOptTokens ==
    {<<"rw">>, <<"local">>, <<"mounted", " ", "by", " ", "me">>,
     <<"x", " ", "(", "y">>}
OptTokens(g) == IF g = "LinuxMount" THEN LinuxOptTokens ELSE BSDOptTokens

Classes == {"LinuxMount", "BSDMount"}

\* ------------------------------------------------------------- the program
IGNORE_TYPES ==
    {<<"autofs">>, <<"bpf">>, <<"cgroup">>, <<"cgroup2">>, <<"debugfs">>,
     <<"devpts">>, <<"devtmpfs">>, <<"hugetlbfs">>, <<"mqueue">>, <<"proc">>,
     <<"pstore">>, <<"securityfs">>, <<"sysfs">>, <<"tmpfs">>}

\* MountFactory.get_mount_class: the platform table.
class_map ==
    [Darwin |-> "BSDMount", FreeBSD |-> "BSDMount", Linux |-> "LinuxMount"]

\* A factory that falls back to the BSD parser, the way MOUNT_PATH falls
\* back to /sbin/mount.
MountFactory_class_default(os_name) ==
    IF os_name \in DOMAIN class_map THEN class_map[os_name] ELSE "BSDMount"

\* The class MountFactory.get_mount_class picks for platform.system(), or
\* the NotImplementedError it raises.
MountFactory_class(os_name) ==
    IF os_name \in DOMAIN class_map THEN class_map[os_name]
    ELSE "NotImplementedError"

\* A constructor without its check.
Mount_init_conflict_unchecked(p, t) == FALSE

\* Mount.__init__: "if paths and types: raise ValueError".  None and the
\* empty list are both the empty sequence: the constructor tests them for
\* truth and stores [] for None.
Mount_init_conflict(p, t) == p # <<>> /\ t # <<>>

\* Mount.__init__: self.types, every entry lower-cased.
Mount_init_types(t) == [i \in 1..Len(t) |-> Lower(t[i])]

\* parse_args: "if args.path and args.type: parser.error(...)".
parse_args_conflict(p, t) == p # <<>> /\ t # <<>>

\* Mount.process_mount_data over the lines of the text: blank lines are
\* skipped, every other line's detail is appended, matched or not.
RECURSIVE process_lines(_, _)
process_lines(cls, lines) ==
    IF lines = <<>> THEN <<>>
    ELSE LET line == Strip(Head(lines))
         IN  IF line = <<>> THEN process_lines(cls, Tail(lines))
             ELSE <<process_mount_line(cls, line)>>
                      \o process_lines(cls, Tail(lines))

Mount_process_mount_data(cls, text) ==
    process_lines(cls, Split(text, linesep))

\* Mount.probe, path mode: targets = [mount['target'] for mount in
\* mount_data] raises KeyError on a dict without the key.
probe_targets_KeyError(md) ==
    \E k \in 1..Len(md) : ~HasKey(md[k], "target")

probe_path_metrics(ps, md) ==
    [i \in 1..Len(ps) |->
        [name |-> ps[i],
         value |-> IF \E k \in 1..Len(md) : md[k].target = ps[i]
                   THEN 1 ELSE 0]]

\* Mount.probe, counting mode: whether the loop body counts this mount.
probe_counts(mount, ts) ==
    IF ts # <<>> /\ mount.filesystem_type \in Range(ts) THEN TRUE
    ELSE IF ts # <<>> /\ mount.filesystem_type \notin Range(ts) THEN FALSE
    ELSE IF mount.filesystem_type \in IGNORE_TYPES THEN FALSE
    ELSE TRUE

\* Every iteration reads mount['filesystem_type'] (line 174 with a filter,
\* line 187 without one).
probe_count_KeyError(md) ==
    \E k \in 1..Len(md) : ~HasKey(md[k], "filesystem_type")

RECURSIVE probe_mount_count(_, _)
probe_mount_count(md, ts) ==
    IF md = <<>> THEN 0
    ELSE (IF probe_counts(Head(md), ts) THEN 1 ELSE 0)
             + probe_mount_count(Tail(md), ts)

\* ------------------------------------------------------------ environment
Platforms == {"Linux", "Darwin", "FreeBSD", "SunOS"}

\* -p and -t as given (argparse's None is the empty sequence).
PathArgs == {<<>>, << <<"/">> >>, << <<"/mnt">>, <<"/none">>, <<"/">> >>}
TypeArgs ==
    {<<>>, << <<"nfs">> >>, << <<"NFS">> >>, << <<"tmpfs">>, <<"ext4">> >>}

\* Lines mount(8) may print: Linux ones, BSD ones, a line of neither
\* format and a blank one.
ListingLines ==
    {<<"/dev", " ", "on", " ", "/", " ", "type", " ", "ext4", " ", "(",
       "rw", ",", "relatime", ")">>,
     <<"srv", " ", "on", " ", "/mnt", " ", "type", " ", "nfs", " ", "(",
       "rw", ")">>,
     <<"srv", " ", "on", " ", "/mnt", " ", "type", " ", "NFS", " ", "(",
       "rw", ")">>,
     <<"tmpfs", " ", "on", " ", "/", " ", "type", " ", "tmpfs", " ", "(",
       "rw", ")">>,
     <<"/dev", " ", "on", " ", "/", " ", "(", "hfs", ",", " ", "local", ")">>,
     <<"srv", " ", "on", " ", "/mnt", " ", "(", "nfs", ")">>,
     <<"header">>,
     <<" ">>}

\* The text of a listing: every line followed by the line separator.
RECURSIVE ListingText(_)
ListingText(lines) ==
    IF lines = <<>> THEN <<>>
    ELSE Head(lines) \o linesep \o ListingText(Tail(lines))

Listings == {ListingText(ls) : ls \in SeqsUpTo(ListingLines, MaxLines)}

NoEnc == [source |-> <<>>, target |-> <<>>, filesystem_type |-> <<>>,
          options |-> <<>>]

VARIABLES
    platform,          \* platform.system()
    entry,             \* "cli": main(); "direct": a Mount subclass built by a caller
    arg_path,          \* args.path / the constructor's paths
    arg_type,          \* args.type / the constructor's types
    mount_executable,  \* os.access(mount_path, os.X_OK)
    pc,                \* where the run is
    err,               \* the exception that ended it
    paths,             \* self.paths
    types,             \* self.types
    mount_class,       \* the class probe got from the factory
    probe_started,     \* probe has been entered
    listing_invoked,   \* get_mount_data has been called
    exit_status,       \* the exit status of mount(8)
    output,            \* its standard output
    parser_called,     \* process_mount_data has been called
    mount_data,        \* the snapshot
    metrics,           \* the metrics probe yielded
    cls,               \* parser specification: the class under test
    enc,               \* the fields encoded in the line
    line,              \* the line
    detail,            \* process_mount_line(line)
    line2,             \* detail serialized again
    detail2,           \* process_mount_line(line2)
    ppc                \* where the parser specification is

runVars ==
    <<platform, entry, arg_path, arg_type, mount_executable, pc, err, paths,
      types, mount_class, probe_started, listing_invoked, exit_status,
      output, parser_called, mount_data, metrics>>
parseVars == <<cls, enc, line, detail, line2, detail2, ppc>>
vars == <<runVars, parseVars>>

RunIdle ==
    /\ platform = "Linux" /\ entry = "cli" /\ arg_path = <<>>
    /\ arg_type = <<>> /\ mount_executable = TRUE /\ pc = "idle"
    /\ err = "none" /\ paths = <<>> /\ types = <<>> /\ mount_class = "none"
    /\ probe_started = FALSE /\ listing_invoked = FALSE /\ exit_status = 0
    /\ output = <<>> /\ parser_called = FALSE /\ mount_data = <<>>
    /\ metrics = <<>>

ParseIdle ==
    /\ cls = "LinuxMount" /\ enc = NoEnc /\ line = <<>>
    /\ detail = EmptyDetail /\ line2 = <<>> /\ detail2 = EmptyDetail
    /\ ppc = "idle"

\* One run of the plugin, from the command line or from a caller that
\* builds the resource itself.
Init ==
    /\ platform \in Platforms
    /\ entry \in {"cli", "direct"}
    /\ arg_path \in PathArgs
    /\ arg_type \in TypeArgs
    /\ mount_executable \in BOOLEAN
    /\ pc = "start" /\ err = "none"
    /\ paths = <<>> /\ types = <<>> /\ mount_class = "none"
    /\ probe_started = FALSE /\ listing_invoked = FALSE /\ exit_status = 0
    /\ output = <<>> /\ parser_called = FALSE /\ mount_data = <<>>
    /\ metrics = <<>>
    /\ ParseIdle

Raise(e) == pc' = "failed" /\ err' = e

\* parse_args (main, line 354).
parse_args ==
    /\ pc = "start" /\ entry = "cli"
    /\ IF parse_args_conflict(arg_path, arg_type) THEN Raise("SystemExit")
       ELSE IF ~mount_executable THEN Raise("SystemExit")
       ELSE pc' = "args" /\ err' = err
    /\ UNCHANGED <<platform, entry, arg_path, arg_type, mount_executable,
                   paths, types, mount_class, probe_started,
                   listing_invoked, exit_status, output, parser_called,
                   mount_data, metrics, parseVars>>

\* Mount.__init__(paths, types).
Mount_init(p, t) ==
    IF Mount_init_conflict(p, t)
    THEN Raise("ValueError") /\ UNCHANGED <<paths, types>>
    ELSE /\ paths' = p
         /\ types' = Mount_init_types(t)
         /\ pc' = "constructed" /\ err' = err

\* main, line 364: MountFactory.get_mount_class(args.path, args.type, ...).
main_get_mount_class ==
    /\ pc = "args"
    /\ IF MountFactory_class(platform) = "NotImplementedError"
       THEN Raise("NotImplementedError") /\ UNCHANGED <<paths, types>>
       ELSE Mount_init(arg_path, arg_type)
    /\ UNCHANGED <<platform, entry, arg_path, arg_type, mount_executable,
                   mount_class, probe_started, listing_invoked, exit_status,
                   output, parser_called, mount_data, metrics, parseVars>>

\* A caller building LinuxMount(paths, types) or BSDMount(paths, types).
direct_construct ==
    /\ pc = "start" /\ entry = "direct"
    /\ Mount_init(arg_path, arg_type)
    /\ UNCHANGED <<platform, entry, arg_path, arg_type, mount_executable,
                   mount_class, probe_started, listing_invoked, exit_status,
                   output, parser_called, mount_data, metrics, parseVars>>

\* probe, line 156: mount_class = MountFactory.get_mount_class().
probe_get_mount_class ==
    /\ pc = "constructed"
    /\ probe_started' = TRUE
    /\ IF MountFactory_class(platform) = "NotImplementedError"
       THEN Raise("NotImplementedError") /\ UNCHANGED mount_class
       ELSE /\ mount_class' = MountFactory_class(platform)
            /\ pc' = "probe" /\ err' = err
    /\ UNCHANGED <<platform, entry, arg_path, arg_type, mount_executable,
                   paths, types, listing_invoked, exit_status, output,
                   parser_called, mount_data, metrics, parseVars>>

\* get_mount_data: Popen raises OSError when mount cannot be run; otherwise
\* communicate()[0] is returned, whatever the exit status.
get_mount_data ==
    /\ pc = "probe"
    /\ listing_invoked' = TRUE
    /\ \E spawned \in BOOLEAN, status \in {0, 1}, out \in Listings :
          IF ~spawned \/ ~mount_executable
          THEN Raise("OSError") /\ UNCHANGED <<exit_status, output>>
          ELSE /\ exit_status' = status
               /\ output' = out
               /\ pc' = "listed" /\ err' = err
    /\ UNCHANGED <<platform, entry, arg_path, arg_type, mount_executable,
                   paths, types, mount_class, probe_started, parser_called,
                   mount_data, metrics, parseVars>>

\* probe, line 157: mount_class.process_mount_data(<the output>).
process_mount_data ==
    /\ pc = "listed"
    /\ parser_called' = TRUE
    /\ mount_data' = Mount_process_mount_data(mount_class, output)
    /\ pc' = "snapshot"
    /\ UNCHANGED <<platform, entry, arg_path, arg_type, mount_executable,
                   err, paths, types, mount_class, probe_started,
                   listing_invoked, exit_status, output, metrics, parseVars>>

\* probe, lines 161-169.
probe_paths ==
    /\ pc = "snapshot" /\ paths # <<>>
    /\ IF probe_targets_KeyError(mount_data)
       THEN Raise("KeyError") /\ UNCHANGED metrics
       ELSE /\ metrics' = probe_path_metrics(paths, mount_data)
            /\ pc' = "done" /\ err' = err
    /\ UNCHANGED <<platform, entry, arg_path, arg_type, mount_executable,
                   paths, types, mount_class, probe_started,
                   listing_invoked, exit_status, output, parser_called,
                   mount_data, parseVars>>

\* probe, lines 171-197.
probe_count ==
    /\ pc = "snapshot" /\ paths = <<>>
    /\ IF probe_count_KeyError(mount_data)
       THEN Raise("KeyError") /\ UNCHANGED metrics
       ELSE /\ metrics' = <<[name |-> <<"total mounts">>,
                             value |-> probe_mount_count(mount_data, types)]>>
            /\ pc' = "done" /\ err' = err
    /\ UNCHANGED <<platform, entry, arg_path, arg_type, mount_executable,
                   paths, types, mount_class, probe_started,
                   listing_invoked, exit_status, output, parser_called,
                   mount_data, parseVars>>

Next ==
    \/ parse_args
    \/ main_get_mount_class
    \/ direct_construct
    \/ probe_get_mount_class
    \/ get_mount_data
    \/ process_mount_data
    \/ probe_paths
    \/ probe_count

Spec == Init /\ [][Next]_vars

\* ------------------------------------------- the parsers on encoded lines
\* process_mount_line applied to the line that encodes known fields, the
\* detail serialized again, and the result parsed again.
InitParse ==
    /\ RunIdle
    /\ cls \in Classes
    /\ enc \in [source : Sources, target : Targets,
                filesystem_type : FsTypes,
                options : SeqsUpTo(OptTokens(cls), MaxOpts)]
    /\ line = Encode(cls, enc)
    /\ detail = EmptyDetail /\ line2 = <<>> /\ detail2 = EmptyDetail
    /\ ppc = "line"

parse_line ==
    /\ ppc = "line"
    /\ detail' = process_mount_line(cls, line)
    /\ ppc' = "parsed"
    /\ UNCHANGED <<runVars, cls, enc, line, line2, detail2>>

reserialize ==
    /\ ppc = "parsed" /\ detail # EmptyDetail
    /\ line2' = Encode(cls, detail)
    /\ ppc' = "reserialized"
    /\ UNCHANGED <<runVars, cls, enc, line, detail, detail2>>

reparse ==
    /\ ppc = "reserialized"
    /\ detail2' = process_mount_line(cls, line2)
    /\ ppc' = "reparsed"
    /\ UNCHANGED <<runVars, cls, enc, line, detail, line2>>

NextParse == parse_line \/ reserialize \/ reparse

SpecParse == InitParse /\ [][NextParse]_vars

\* ----------------------------------------------------------------- claims
\* probe has run its selection over the snapshot: it yielded its metrics or
\* raised while reading the snapshot.
Selected == pc = "done" \/ (pc = "failed" /\ err = "KeyError")

TotalMounts(n) == <<[name |-> <<"total mounts">>, value |-> n]>>

\* C1: in path mode probe yields one metric per requested path, in the
\* order requested, named after the path, 1 when some entry of the snapshot
\* has that target and 0 otherwise.
C1_PathPresence ==
    (Selected /\ paths # <<>>) =>
        metrics =
            [i \in 1..Len(paths) |->
                [name |-> paths[i],
                 value |-> IF \E k \in 1..Len(mount_data) :
                                  /\ HasKey(mount_data[k], "target")
                                  /\ mount_data[k].target = paths[i]
                           THEN 1 ELSE 0]]

\* C2: counting with no filter, probe yields the one metric 'total mounts',
\* the number of entries of the snapshot whose type is not in IGNORE_TYPES.
C2_TotalUnfiltered ==
    (Selected /\ paths = <<>> /\ types = <<>>) =>
        metrics = TotalMounts(Cardinality(
            {k \in 1..Len(mount_data) :
                /\ HasKey(mount_data[k], "filesystem_type")
                /\ mount_data[k].filesystem_type \notin IGNORE_TYPES}))

\* C3: counting with a filter, 'total mounts' is the number of entries of
\* the snapshot whose type is in the filter, IGNORE_TYPES playing no part.
C3_TotalFiltered ==
    (Selected /\ paths = <<>> /\ types # <<>>) =>
        metrics = TotalMounts(Cardinality(
            {k \in 1..Len(mount_data) :
                /\ HasKey(mount_data[k], "filesystem_type")
                /\ mount_data[k].filesystem_type \in Range(types)}))

NonBlankLines(text) ==
    LET ls == Split(text, linesep)
    IN  {i \in 1..Len(ls) : Strip(ls[i]) # <<>>}

MismatchedLines(c, text) ==
    LET ls == Split(text, linesep)
    IN  {i \in NonBlankLines(text) :
            process_mount_line(c, Strip(ls[i])) = EmptyDetail}

\* C4: a non-blank line that does not match the grammar leaves no entry in
\* the snapshot (its length is lines - blank - mismatched), and selection
\* over the snapshot completes.
C4_MismatchDropped ==
    parser_called =>
        /\ Len(mount_data) =
               Cardinality(NonBlankLines(output))
                   - Cardinality(MismatchedLines(mount_class, output))
        /\ \A k \in 1..Len(mount_data) : mount_data[k] # EmptyDetail
        /\ err # "KeyError"

ArgConflict == arg_path # <<>> /\ arg_type # <<>>

\* C5: paths and types both given are rejected before selection: parse_args
\* exits, the constructor raises ValueError, and probe never runs on an
\* object with both set.
C5_ConflictRejected ==
    /\ probe_started => ~(paths # <<>> /\ types # <<>>)
    /\ (ArgConflict /\ pc # "start") =>
           /\ pc = "failed"
           /\ ~probe_started
           /\ err = IF entry = "cli" THEN "SystemExit" ELSE "ValueError"

C5_Witness ==
    ArgConflict /\ entry = "direct" /\ pc = "failed" /\ err = "ValueError"

\* C6: when mount cannot be spawned or exits non-zero, process_mount_data is
\* not called on its output and no metric is yielded.
C6_ListingFailureIsFatal ==
    (listing_invoked /\ (err = "OSError" \/ exit_status # 0)) =>
        ~parser_called /\ metrics = <<>>

\* C7: on a platform outside class_map the run ends in NotImplementedError
\* (or in the usage error of bad arguments) before get_mount_data is called,
\* and no metric is yielded.
C7_UnsupportedPlatform ==
    platform \notin DOMAIN class_map =>
        /\ ~listing_invoked /\ ~parser_called /\ metrics = <<>>
        /\ pc \in {"start", "args", "constructed", "failed"}
        /\ (pc = "failed" /\ ~ArgConflict /\ (entry = "cli" => mount_executable))
               => err = "NotImplementedError"

C7_Witness ==
    /\ platform \notin DOMAIN class_map
    /\ entry = "cli" /\ pc = "failed" /\ err = "NotImplementedError"

Parsed == ppc \in {"parsed", "reserialized", "reparsed"}

HasAtom(s, a) == a \in Range(s)

\* C8: on a Linux line the parser returns the encoded source, target and
\* type, and the encoded options one element each; serializing and parsing
\* again gives the same record.  Stated for the lines whose source and
\* target hold none of the words the expression anchors on.
C8_LinuxRoundTrip ==
    (/\ cls = "LinuxMount" /\ Parsed
     /\ \A f \in {enc.source, enc.target} :
            ~HasAtom(f, "on") /\ ~HasAtom(f, "type")) =>
        /\ detail = enc
        /\ ppc = "reparsed" => detail2 = detail

\* C9 as stated: on every BSD line the parser returns the encoded source and
\* target, the first token in the parentheses as the type and the tokens
\* after it as the options, and the round trip gives the same record.
\* Stated for the lines whose tokens hold no parenthesis.
C9_BSDEveryLine ==
    (/\ cls = "BSDMount" /\ Parsed
     /\ \A k \in 1..Len(enc.options) : ~HasAtom(enc.options[k], "(")) =>
        /\ detail = enc
        /\ ppc = "reparsed" => detail2 = detail

\* " on " occurs nowhere after the separator that follows SOURCE, and " ("
\* nowhere inside the parentheses.
BSDUnambiguous(e) ==
    /\ \A i \in Occurrences(BSDEncode(e), ON) : i <= Len(e.source) + 1
    /\ Occurrences(Join(<<e.filesystem_type>> \o e.options, COMMA_SPACE),
                   OPEN) = {}

\* C9 amended: the same, for the BSD lines in which " on " does not occur
\* again after the separator that follows SOURCE and " (" does not occur
\* inside the parentheses.
C9_BSDRoundTrip ==
    (cls = "BSDMount" /\ Parsed /\ BSDUnambiguous(enc)) =>
        /\ detail.source = enc.source
        /\ detail.target = enc.target
        /\ detail.filesystem_type = enc.filesystem_type
        /\ detail.options = enc.options
        /\ ppc = "reparsed" => detail2 = detail

C9_Witness ==
    /\ cls = "BSDMount" /\ ppc = "reparsed" /\ BSDUnambiguous(enc)
    /\ enc.source = <<"a", " ", "on", " ", "b">>
    /\ enc.target = <<"/my", " ", "x">>
    /\ Len(enc.options) = 2

\* C10: with a filter, a record whose listed type differs from a filter
\* entry only in letter case is counted: 'total mounts' is the number of
\* records whose lower-cased type is a lower-cased filter entry.
C10_CaseInsensitive ==
    (pc = "done" /\ paths = <<>> /\ arg_type # <<>>) =>
        metrics = TotalMounts(Cardinality(
            {k \in 1..Len(mount_data) :
                Lower(mount_data[k].filesystem_type)
                    \in {Lower(t) : t \in Range(arg_type)}}))

====
